---- MODULE Spec2Model ----
(***************************************************************************)
(* A model of the automatic-differentiation engine: tensors and their      *)
(* autograd metadata, the process-wide autograd mode and its scoped        *)
(* override, the tracked operations, the reverse-mode executor             *)
(* (backward), and the differentiation drivers vjp, jvp, jacrev, jacfwd.   *)
(*                                                                         *)
(* Arrays are modelled by their shape and their row-major element list;    *)
(* elements are integers.  Python object identity is modelled by heap      *)
(* indices: a Tensor is its index in `tensors`, a Node its index in        *)
(* `nodes`; 0 stands for None.                                             *)
(***************************************************************************)
EXTENDS Integers, Sequences, FiniteSets, TLC

VARIABLES
    tensors,   \* the heap of Tensor objects
    nodes,     \* the heap of graph Node objects
    mode,      \* the process-wide autograd state (enabled, reverse, forward)
    scopes,    \* the live scoped overrides, innermost last: what each restores
    entered,   \* history: the mode that was in force when each live scope was entered
    nback,     \* history: number of executor passes run so far
    modules,   \* the heap of Module objects
    ret        \* the outcome of the last call

vars == <<tensors, nodes, mode, scopes, entered, nback, modules, ret>>

(***************************************************************************)
(* Bounds of the model.                                                    *)
(***************************************************************************)
NumLeaves == 2      \* tensors the caller constructs
MaxOps == 2         \* tracked operations the caller applies
MaxDepth == 2       \* nesting depth of the caller's scoped overrides
MaxBackward == 1    \* executor passes the caller starts
MaxRepeat == 1      \* repetitions of a pass
MaxVersion == 1     \* payload replacements on a tracked value
MaxChain == 3       \* operations of a graph with paths of different length
MaxModules == 2     \* Module objects the caller constructs

Dims == {<< >>, <<1>>, <<2>>}

None == << >>
Some(x) == <<x>>

(***************************************************************************)
(* Dense arrays: [dim |-> shape, data |-> row-major elements].             *)
(***************************************************************************)
RECURSIVE Prod(_)
Prod(dim) == IF dim = << >> THEN 1 ELSE Head(dim) * Prod(Tail(dim))

full(dim, v) == [dim |-> dim, data |-> [k \in 1..Prod(dim) |-> v]]
zeros(dim) == full(dim, 0)
ones(dim) == full(dim, 1)
zeroslike(t) == zeros(t.data.dim)
oneslike(t) == ones(t.data.dim)

\* np.unravel_index(k, dim): the row-major multi-index of flat index k.
RECURSIVE unravel_index(_, _)
unravel_index(k, dim) ==
    IF dim = << >> THEN << >>
    ELSE Append(unravel_index(k \div dim[Len(dim)], SubSeq(dim, 1, Len(dim) - 1)),
                k % dim[Len(dim)])

\* The flat row-major position at which an array of shape dim stores the
\* element of multi-index idx.
RECURSIVE offset(_, _)
offset(idx, dim) ==
    IF dim = << >> THEN 0
    ELSE offset(SubSeq(idx, 1, Len(dim) - 1), SubSeq(dim, 1, Len(dim) - 1)) * dim[Len(dim)]
             + idx[Len(dim)]

\* Broadcasting, as the numeric backend does it: shapes are aligned on the
\* right, missing axes count as 1, an axis of length 1 is stretched.
Max(a, b) == IF a >= b THEN a ELSE b

pad(dim, n) == [i \in 1..n |-> IF i <= n - Len(dim) THEN 1 ELSE dim[i - (n - Len(dim))]]

\* np.broadcast_shapes(d1, d2)
bdim(d1, d2) ==
    [i \in 1..Max(Len(d1), Len(d2)) |->
        Max(pad(d1, Max(Len(d1), Len(d2)))[i], pad(d2, Max(Len(d1), Len(d2)))[i])]

\* dim can be stretched to the shape to.
compat(dim, to) ==
    /\ Len(dim) <= Len(to)
    /\ \A i \in 1..Len(to) : pad(dim, Len(to))[i] \in {1, to[i]}

\* The flat position in an array of shape dim of the element that lands on
\* flat position k of its stretching to the shape to.
source(k, dim, to) ==
    LET idx == unravel_index(k, to)
        n == Len(to) - Len(dim)
    IN  offset([i \in 1..Len(dim) |-> IF dim[i] = 1 THEN 0 ELSE idx[n + i]], dim)

\* np.broadcast_to(x, to)
expand(x, to) ==
    IF x.dim = to THEN x
    ELSE [dim |-> to, data |-> [k \in 1..Prod(to) |-> x.data[source(k - 1, x.dim, to) + 1]]]

RECURSIVE SumOver(_, _)
SumOver(f, S) ==
    IF S = {} THEN 0
    ELSE LET k == CHOOSE k \in S : TRUE IN f[k] + SumOver(f, S \ {k})

\* The reduction of a cotangent g to the shape dim of the value it belongs
\* to: the sum over the axes along which the value was stretched.  A
\* cotangent that is not a stretching of the shape is left as it is.
sumto(g, dim) ==
    IF g.dim = dim THEN g
    ELSE IF ~compat(dim, g.dim) THEN g
    ELSE [dim |-> dim,
          data |-> [j \in 1..Prod(dim) |->
                       SumOver(g.data, {k \in 1..Len(g.data) : source(k - 1, dim, g.dim) + 1 = j})]]

AddA(x, y) ==
    IF x.dim = y.dim
    THEN [dim |-> x.dim, data |-> [k \in 1..Len(x.data) |-> x.data[k] + y.data[k]]]
    ELSE [dim |-> bdim(x.dim, y.dim),
          data |-> [k \in 1..Prod(bdim(x.dim, y.dim)) |->
                       expand(x, bdim(x.dim, y.dim)).data[k] + expand(y, bdim(x.dim, y.dim)).data[k]]]

MulA(x, y) ==
    IF x.dim = y.dim
    THEN [dim |-> x.dim, data |-> [k \in 1..Len(x.data) |-> x.data[k] * y.data[k]]]
    ELSE [dim |-> bdim(x.dim, y.dim),
          data |-> [k \in 1..Prod(bdim(x.dim, y.dim)) |->
                       expand(x, bdim(x.dim, y.dim)).data[k] * expand(y, bdim(x.dim, y.dim)).data[k]]]

(***************************************************************************)
(* Tensor objects.  grad is None or Some(array); gradfn is 0 (None) or a   *)
(* node index.                                                             *)
(***************************************************************************)
Tensor(data, dtype, usegrad, grad, gradfn, leaf) ==
    [data |-> data, dtype |-> dtype, usegrad |-> usegrad, grad |-> grad,
     gradfn |-> gradfn, leaf |-> leaf, version |-> 0]

tensor(data, usegrad, dtype) == Tensor(data, dtype, usegrad, None, 0, TRUE)

gradtensor(t) == t.dtype \in {"half", "float", "double"}

nelem(t) == Len(t.data.data)
ndim(t) == Len(t.data.dim)

\* t.mutated(**attrs): a new Tensor object sharing the payload, version 0,
\* with the given attributes overwritten.
mutated(t, usegrad, grad, gradfn, leaf) ==
    Tensor(t.data, t.dtype, usegrad, grad, gradfn, leaf)

(***************************************************************************)
(* The world an operation runs in: the two heaps, the autograd mode with   *)
(* the stack of live scoped overrides, and two history counters (calls of  *)
(* the caller's function f, writes to the mode).                           *)
(***************************************************************************)
World(ts, ns, m, sc) ==
    [tensors |-> ts, nodes |-> ns, mode |-> m, scopes |-> sc, fcalls |-> 0, swaps |-> 0]

Here == World(tensors, nodes, mode, scopes)

alloc(w, t) == [w EXCEPT !.tensors = Append(@, t)]
last(w) == Len(w.tensors)

(***************************************************************************)
(* Mode Controller and its scoped override `with autograd(...)`.           *)
(***************************************************************************)
Autograd(enabled, reverse, forward) ==
    [enabled |-> enabled, reverse |-> reverse, forward |-> forward]

DefaultMode == Autograd(TRUE, TRUE, FALSE)

\* __enter__: remember the state in force, swap in the requested one.
autograd_enter(w, cfg) ==
    [w EXCEPT !.scopes = Append(@, w.mode), !.mode = cfg, !.swaps = @ + 1]

\* A variant of __exit__ that resets the mode to the default instead of
\* putting back what __enter__ remembered.
autograd_exit_default(w) ==
    [w EXCEPT !.mode = DefaultMode,
              !.scopes = SubSeq(@, 1, Len(@) - 1),
              !.swaps = @ + 1]

\* __exit__, on normal return and on failure alike: put back what __enter__
\* remembered.
autograd_exit(w) ==
    [w EXCEPT !.mode = w.scopes[Len(w.scopes)],
              !.scopes = SubSeq(@, 1, Len(@) - 1),
              !.swaps = @ + 1]

(***************************************************************************)
(* Operation nodes.  edges: one <<node, output slot>> per input, node 0    *)
(* for an input that is not tracked; outputs: the tensors the node         *)
(* produced; ctx: the input tensors the rules read.  A tracked leaf that   *)
(* enters an operation is given a node of its own, fn = "leaf", whose      *)
(* output is the leaf and which accumulates.                               *)
(***************************************************************************)
Node(fn, edges, outputs, ctx, retained) ==
    [fn |-> fn, edges |-> edges, outputs |-> outputs, ctx |-> ctx,
     retain |-> FALSE, retained_outputs |-> retained]

Fns == {"add", "mul"}

\* The numeric backend: forward value, reverse rule (one cotangent per
\* input), forward rule (the output tangent).
forward(fn, x, y) == IF fn = "add" THEN AddA(x, y) ELSE MulA(x, y)

\* A variant of the reverse rules that hands the cotangent on without the
\* reduction.
reverseRule_unreduced(fn, x, y, g) ==
    IF fn = "add" THEN <<g, g>> ELSE <<MulA(g, y), MulA(g, x)>>

\* The cotangent of an operand that was stretched by the operation is
\* reduced to the operand's shape.
reverseRule(fn, x, y, g) ==
    IF fn = "add" THEN <<sumto(g, x.dim), sumto(g, y.dim)>>
    ELSE <<sumto(MulA(g, y), x.dim), sumto(MulA(g, x), y.dim)>>

forwardRule(fn, x, y, tx, ty) ==
    IF fn = "add" THEN AddA(tx, ty) ELSE AddA(MulA(tx, y), MulA(x, ty))

\* The operations of one operand that change the shape: sum over all axes,
\* unsqueeze(0), squeeze().
UFns == {"sum", "unsqueeze", "squeeze"}

squeezed(dim) == SelectSeq(dim, LAMBDA n : n # 1)

forward1(fn, x) ==
    IF fn = "sum" THEN [dim |-> << >>, data |-> <<SumOver(x.data, DOMAIN x.data)>>]
    ELSE IF fn = "unsqueeze" THEN [dim |-> <<1>> \o x.dim, data |-> x.data]
    ELSE [dim |-> squeezed(x.dim), data |-> x.data]

\* A variant of the reverse rules that hands the cotangent back in the
\* output's shape.
reverseRule1_unshaped(fn, x, g) == <<g>>

\* The reverse rules: the cotangent of the sum is stretched to the operand's
\* shape, that of a reshaping is reshaped back.
reverseRule1(fn, x, g) ==
    IF fn = "sum" THEN <<expand(g, x.dim)>>
    ELSE <<[dim |-> x.dim, data |-> g.data]>>

\* The cotangent cannot be stretched, or reshaped, to the operand's shape.
rulefails(fn, x, g) ==
    IF fn = "sum" THEN ~compat(g.dim, x.dim)
    ELSE IF fn \in {"unsqueeze", "squeeze"} THEN Len(g.data) # Len(x.data)
    ELSE FALSE

forwardRule1(fn, x, tx) == forward1(fn, tx)

resultdtype(ta, tb) == IF gradtensor(ta) \/ gradtensor(tb) THEN "float" ELSE "int"

tangentof(t) == IF t.usegrad /\ t.grad # None THEN t.grad[1] ELSE zeroslike(t)

\* The edge of one input, given the number of nodes already on the heap:
\* the nodes to add (a leaf node, or nothing) and the edge itself.
newleaf(w, a) ==
    IF w.tensors[a].usegrad /\ w.tensors[a].leaf
    THEN <<Node("leaf", << >>, <<a>>, << >>, <<TRUE>>)>>
    ELSE << >>

edgeof(w, a, base, fresh) ==
    IF ~w.tensors[a].usegrad THEN <<0, 0>>
    ELSE IF w.tensors[a].leaf THEN <<base + Len(fresh), 1>>
    ELSE IF w.tensors[a].gradfn # 0
            /\ \E k \in DOMAIN w.nodes[w.tensors[a].gradfn].outputs :
                  w.nodes[w.tensors[a].gradfn].outputs[k] = a
    THEN <<w.tensors[a].gradfn,
           CHOOSE k \in DOMAIN w.nodes[w.tensors[a].gradfn].outputs :
               w.nodes[w.tensors[a].gradfn].outputs[k] = a>>
    ELSE <<w.tensors[a].gradfn, 1>>

\* Function.apply: the tracked operation fn on the tensors a and b.  Reads
\* the mode once.  Returns the world with the output allocated last.
apply(w, fn, a, b) ==
    LET ta == w.tensors[a]
        tb == w.tensors[b]
        track == w.mode.enabled /\ (ta.usegrad \/ tb.usegrad)
        rev == track /\ w.mode.reverse
        fwd == track /\ w.mode.forward
        out == forward(fn, ta.data, tb.data)
        tan == IF fwd
               THEN Some(forwardRule(fn, ta.data, tb.data, tangentof(ta), tangentof(tb)))
               ELSE None
        la == newleaf(w, a)
        lb == newleaf(w, b)
        n0 == Len(w.nodes)
        ea == edgeof(w, a, n0, la)
        eb == edgeof(w, b, n0 + Len(la), lb)
        nid == n0 + Len(la) + Len(lb) + 1
        tid == Len(w.tensors) + 1
        node == Node(fn, <<ea, eb>>, <<tid>>, <<a, b>>, <<FALSE>>)
    IN  IF rev
        THEN [w EXCEPT !.nodes = (@ \o la \o lb) \o <<node>>,
                       !.tensors = Append(@, Tensor(out, resultdtype(ta, tb), TRUE, tan, nid, FALSE))]
        ELSE IF fwd
        THEN alloc(w, Tensor(out, resultdtype(ta, tb), TRUE, tan, 0, FALSE))
        ELSE alloc(w, Tensor(out, resultdtype(ta, tb), FALSE, None, 0, TRUE))

\* Function.apply for an operation of one operand.
apply1(w, fn, a) ==
    LET ta == w.tensors[a]
        track == w.mode.enabled /\ ta.usegrad
        rev == track /\ w.mode.reverse
        fwd == track /\ w.mode.forward
        out == forward1(fn, ta.data)
        tan == IF fwd THEN Some(forwardRule1(fn, ta.data, tangentof(ta))) ELSE None
        la == newleaf(w, a)
        n0 == Len(w.nodes)
        ea == edgeof(w, a, n0, la)
        nid == n0 + Len(la) + 1
        tid == Len(w.tensors) + 1
        node == Node(fn, <<ea>>, <<tid>>, <<a>>, <<FALSE>>)
    IN  IF rev
        THEN [w EXCEPT !.nodes = (@ \o la) \o <<node>>,
                       !.tensors = Append(@, Tensor(out, ta.dtype, TRUE, tan, nid, FALSE))]
        ELSE IF fwd
        THEN alloc(w, Tensor(out, ta.dtype, TRUE, tan, 0, FALSE))
        ELSE alloc(w, Tensor(out, ta.dtype, FALSE, None, 0, TRUE))

\* Function.apply for unbind, an operation of several outputs: the elements
\* of a tensor of rank 1, one output slot each.
unbind(w, a) ==
    LET ta == w.tensors[a]
        n == Len(ta.data.data)
        rev == w.mode.enabled /\ ta.usegrad /\ w.mode.reverse
        la == newleaf(w, a)
        nid == Len(w.nodes) + Len(la) + 1
        tid == Len(w.tensors)
        node == Node("unbind", <<edgeof(w, a, Len(w.nodes), la)>>, [k \in 1..n |-> tid + k], <<a>>,
                     [k \in 1..n |-> FALSE])
    IN  IF rev
        THEN [w EXCEPT !.nodes = (@ \o la) \o <<node>>,
                       !.tensors = @ \o [k \in 1..n |->
                           Tensor([dim |-> << >>, data |-> <<ta.data.data[k]>>], ta.dtype, TRUE, None, nid, FALSE)]]
        ELSE [w EXCEPT !.tensors = @ \o [k \in 1..n |->
                           Tensor([dim |-> << >>, data |-> <<ta.data.data[k]>>], ta.dtype, FALSE, None, 0, TRUE)]]

(***************************************************************************)
(* Graph Builder and Topological Scheduler.                                *)
(***************************************************************************)
Range(q) == {q[k] : k \in 1..Len(q)}

parentsof(ns, n) == [k \in 1..Len(ns[n].edges) |-> ns[n].edges[k][1]]

\* construct_graph: the nodes reachable from the output nodes through the
\* edges, each once, in the order of discovery; a None edge is not followed.
RECURSIVE discover(_, _, _)
discover(ns, todo, seen) ==
    IF todo = << >> THEN seen
    ELSE LET n == Head(todo)
         IN  IF n = 0 \/ n \in Range(seen)
             THEN discover(ns, Tail(todo), seen)
             ELSE discover(ns, Tail(todo) \o parentsof(ns, n), Append(seen, n))

construct_graph(ns, output_nodes) == discover(ns, output_nodes, << >>)

consumers(ns, graph, n) == {m \in Range(graph) : n \in Range(parentsof(ns, m))}

\* topological: a node is scheduled once all its consumers are; among the
\* ready nodes the first discovered goes first.
RECURSIVE schedule(_, _, _)
schedule(ns, graph, order) ==
    IF Len(order) = Len(graph) THEN order
    ELSE LET ready == {k \in 1..Len(graph) :
                          /\ graph[k] \notin Range(order)
                          /\ consumers(ns, graph, graph[k]) \subseteq Range(order)}
             first == CHOOSE k \in ready : \A j \in ready : k <= j
         IN  schedule(ns, graph, Append(order, graph[first]))

topological(ns, graph) == schedule(ns, graph, << >>)

(***************************************************************************)
(* Backward Executor.  A Gradient Map entry is a list with one cell per    *)
(* output slot; a cell is [val, ref]: the cotangent, and the heap tensor   *)
(* the cell is (ref = 0 for a tensor made inside the pass).                *)
(***************************************************************************)
Cell(val, ref) == [val |-> val, ref |-> ref]

cellval(ts, c) == IF c.ref = 0 THEN c.val ELSE ts[c.ref].data

gradfns(ts, ids) == SelectSeq([k \in 1..Len(ids) |-> ts[ids[k]].gradfn], LAMBDA n : n # 0)

_get_accumulates(ns, node_order, input_nodes) ==
    {n \in Range(node_order) : \E k \in 1..Len(ns[n].retained_outputs) : ns[n].retained_outputs[k]}
        \cup Range(input_nodes)

\* The cells seeded for output i: per recorded output of its node, the
\* caller's cotangent, ones, or zeros.
seedcells(ts, ns, outputs, grads, output_nodes, i) ==
    [k \in 1..Len(ns[output_nodes[i]].outputs) |->
        IF i <= Len(grads) /\ ns[output_nodes[i]].outputs[k] = outputs[i]
        THEN Cell(ts[grads[i]].data, grads[i])
        ELSE IF ns[output_nodes[i]].outputs[k] = outputs[i]
        THEN Cell(oneslike(ts[outputs[i]]), 0)
        ELSE Cell(zeroslike(ts[outputs[i]]), 0)]

\* A variant of _get_output_grads without its assertion: zip stops at the
\* shorter of outputs and output_nodes.
_get_output_grads_unchecked(ts, ns, outputs, grads, output_nodes) ==
    [status |-> "ok",
     grads |-> [i \in 1..Len(output_nodes) |-> seedcells(ts, ns, outputs, grads, output_nodes, i)]]

_get_output_grads(ts, ns, outputs, grads, output_nodes) ==
    IF Len(outputs) # Len(output_nodes)
    THEN [status |-> "AssertionError", grads |-> << >>]
    ELSE [status |-> "ok",
          grads |-> [i \in 1..Len(outputs) |-> seedcells(ts, ns, outputs, grads, output_nodes, i)]]

\* {node: grads for node, grads in zip(output_nodes, output_grads)}
RECURSIVE dictzip(_, _, _)
dictzip(keys, vals, k) ==
    IF k = 0 THEN << >>
    ELSE (keys[k] :> vals[k]) @@ dictzip(keys, vals, k - 1)

\* A variant of node.accumulate that overwrites the gradient.
RECURSIVE accumulate_overwrite(_, _, _, _)
accumulate_overwrite(ts, outs, cells, k) ==
    IF k > Len(outs) THEN ts
    ELSE accumulate_overwrite([ts EXCEPT ![outs[k]].grad = Some(cellval(ts, cells[k]))],
                              outs, cells, k + 1)

\* node.accumulate(*grads): add each cotangent to the gradient of the
\* output it belongs to.
RECURSIVE accumulate(_, _, _, _)
accumulate(ts, outs, cells, k) ==
    IF k > Len(outs) THEN ts
    ELSE LET o == outs[k]
             g == IF ts[o].grad = None THEN cellval(ts, cells[k])
                  ELSE AddA(ts[o].grad[1], cellval(ts, cells[k]))
         IN  accumulate([ts EXCEPT ![o].grad = Some(g)], outs, cells, k + 1)

\* node.apply(*grads): the reverse rule of the node's operation.
nodeapply(ts, node, cells) ==
    IF node.fn = "leaf" THEN << >>
    ELSE IF node.fn = "unbind"
    THEN <<[dim |-> <<Len(cells)>>, data |-> [k \in 1..Len(cells) |-> cellval(ts, cells[k]).data[1]]]>>
    ELSE IF Len(node.ctx) = 1
    THEN reverseRule1(node.fn, ts[node.ctx[1]].data, cellval(ts, cells[1]))
    ELSE reverseRule(node.fn, ts[node.ctx[1]].data, ts[node.ctx[2]].data, cellval(ts, cells[1]))

\* node.apply(*grads) raises.
applyfails(ts, node, cells) ==
    node.fn # "leaf" /\ rulefails(node.fn, ts[node.ctx[1]].data, cellval(ts, cells[1]))

\* The fan-out of one processed node: edge k onwards.  st = [ts, gm, status];
\* the in-place += raises when the cotangent cannot be stretched to the
\* shape of the entry it is added to.
RECURSIVE fanout(_, _, _, _, _)
fanout(st, ns, edges, edge_grads, k) ==
    IF k > Len(edges) \/ k > Len(edge_grads) \/ st.status # "ok" THEN st
    ELSE LET en == edges[k][1]
             ix == edges[k][2]
             gm0 == IF en \in DOMAIN st.gm THEN st.gm
                    ELSE (en :> [j \in 1..Len(ns[en].outputs) |->
                                     Cell(zeroslike(st.ts[ns[en].outputs[j]]), 0)]) @@ st.gm
             sum == AddA(cellval(st.ts, gm0[en][ix]), edge_grads[k])
             ref == gm0[en][ix].ref
         IN  IF en = 0 THEN fanout(st, ns, edges, edge_grads, k + 1)
             ELSE IF ~compat(edge_grads[k].dim, cellval(st.ts, gm0[en][ix]).dim)
             THEN [ts |-> st.ts, gm |-> gm0, status |-> "ValueError"]
             ELSE fanout([ts |-> IF ref = 0 THEN st.ts ELSE [st.ts EXCEPT ![ref].data = sum],
                          gm |-> [gm0 EXCEPT ![en][ix].val = sum],
                          status |-> "ok"],
                         ns, edges, edge_grads, k + 1)

\* A variant of grad_map.pop(node) that keeps the entry.
without_kept(gm, n) == gm

without(gm, n) == [m \in DOMAIN gm \ {n} |-> gm[m]]

\* while queue: ...   st = [ts, gm, done]; done lists the nodes processed.
RECURSIVE drain(_, _, _, _)
drain(st, ns, accumulates, queue) ==
    IF queue = << >> THEN [status |-> "ok", ts |-> st.ts, gm |-> st.gm, done |-> st.done]
    ELSE LET n == Head(queue)
         IN  IF n \notin DOMAIN st.gm
             THEN [status |-> "KeyError", ts |-> st.ts, gm |-> st.gm, done |-> st.done]
             ELSE IF n \notin accumulates /\ applyfails(st.ts, ns[n], st.gm[n])
             THEN [status |-> "ValueError", ts |-> st.ts, gm |-> st.gm, done |-> st.done]
             ELSE LET cells == st.gm[n]
                      nx == IF n \in accumulates
                            THEN [ts |-> accumulate(st.ts, ns[n].outputs, cells, 1), gm |-> st.gm,
                                  status |-> "ok"]
                            ELSE fanout([ts |-> st.ts, gm |-> st.gm, status |-> "ok"], ns, ns[n].edges,
                                        nodeapply(st.ts, ns[n], cells), 1)
                  IN  IF nx.status # "ok"
                      THEN [status |-> nx.status, ts |-> nx.ts, gm |-> nx.gm, done |-> st.done]
                      ELSE drain([ts |-> nx.ts, gm |-> without(nx.gm, n), done |-> Append(st.done, n)],
                            ns, accumulates, Tail(queue))

\* The pass proper, once the seeds are there: the map, the queue, the loop.
Pass(status, ts, gm, done, seeds) ==
    [status |-> status, ts |-> ts, gm |-> gm, done |-> done, seeds |-> seeds]

seeded(r, output_grads) ==
    Pass(r.status, r.ts, r.gm, r.done,
         [i \in 1..Len(output_grads) |-> output_grads[i][1].val])

\* A variant of the pass that queues every node twice.
_backward_run_requeued(ts, ns, output_nodes, inputs_nodes, node_order, output_grads) ==
    IF output_grads.status # "ok"
    THEN Pass(output_grads.status, ts, << >>, << >>, << >>)
    ELSE seeded(drain([ts |-> ts,
                       gm |-> dictzip(output_nodes, output_grads.grads, Len(output_nodes)),
                       done |-> << >>],
                      ns, _get_accumulates(ns, node_order, inputs_nodes), node_order \o node_order),
                output_grads.grads)

_backward_run(ts, ns, output_nodes, inputs_nodes, node_order, output_grads) ==
    IF output_grads.status # "ok"
    THEN Pass(output_grads.status, ts, << >>, << >>, << >>)
    ELSE seeded(drain([ts |-> ts,
                       gm |-> dictzip(output_nodes, output_grads.grads, Len(output_nodes)),
                       done |-> << >>],
                      ns, _get_accumulates(ns, node_order, inputs_nodes), node_order),
                output_grads.grads)

\* A variant of _backward that queues the nodes in the order of discovery.
_backward_nodes_discovered(ts, ns, outputs, grads, output_nodes, inputs_nodes) ==
    _backward_run(ts, ns, output_nodes, inputs_nodes,
                  construct_graph(ns, output_nodes),
                  _get_output_grads(ts, ns, outputs, grads, output_nodes))

_backward_nodes(ts, ns, outputs, grads, output_nodes, inputs_nodes) ==
    _backward_run(ts, ns, output_nodes, inputs_nodes,
                  topological(ns, construct_graph(ns, output_nodes)),
                  _get_output_grads(ts, ns, outputs, grads, output_nodes))

_backward(ts, ns, outputs, grads, inputs) ==
    _backward_nodes(ts, ns, outputs, grads, gradfns(ts, outputs), gradfns(ts, inputs))

(***************************************************************************)
(* grad and _grad.                                                         *)
(***************************************************************************)
\* `raise NotImplemented`: NotImplemented is not an exception, so the raise
\* statement itself fails with TypeError.
grad(ts, ns, outputs, grads, inputs) ==
    [status |-> "TypeError", ts |-> ts, grads |-> << >>]

_grad(w, input, output, vec) ==
    [status |-> "TypeError", w |-> w, grads |-> << >>]

(***************************************************************************)
(* The caller's function f of the drivers: two inputs, one output.         *)
(***************************************************************************)
Fs == {"add", "mul", "raise"}

Fail(status, w) == [status |-> status, w |-> w, out |-> 0, grads |-> << >>]

\* A call that returned the tensor allocated last.
Result(w, grads) == [status |-> "ok", w |-> w, out |-> last(w), grads |-> grads]

\* f(*input): the call is counted; "raise" fails before applying anything.
callf(w, f, input) ==
    IF f = "raise" THEN Fail("raised", [w EXCEPT !.fcalls = @ + 1])
    ELSE Result(apply([w EXCEPT !.fcalls = @ + 1], f, input[1], input[2]), << >>)

\* Leaving the with block with the outcome r of its body.
leave(r) == [r EXCEPT !.w = autograd_exit(r.w)]

\* A variant of the with block that puts the mode back on normal return
\* only: an exception passing through leaves the override in force.
leave_on_return(r) == IF r.status = "ok" THEN leave(r) ELSE r

scoped_on_return(w, cfg, f, input) == leave_on_return(callf(autograd_enter(w, cfg), f, input))

\* with nura.autograd(cfg): output = f(*input)
scoped(w, cfg, f, input) == leave(callf(autograd_enter(w, cfg), f, input))

\* tuple(t.mutated(usegrad=True, grad=None, leaf=True) for t in input), from
\* input k on: the copies are allocated in order.
RECURSIVE leafcopies(_, _, _)
leafcopies(w, input, k) ==
    IF k > Len(input) THEN w
    ELSE LET t == w.tensors[input[k]]
         IN  leafcopies(alloc(w, mutated(t, TRUE, None, t.gradfn, TRUE)), input, k + 1)

\* A variant of the dual copies that attaches the tangent to the caller's
\* tensor as well as to the copy.
RECURSIVE dualcopies_attached(_, _, _, _)
dualcopies_attached(w, input, vec, k) ==
    IF k > Len(input) THEN w
    ELSE LET t == w.tensors[input[k]]
         IN  dualcopies_attached(
                 alloc([w EXCEPT !.tensors[input[k]].grad = Some(w.tensors[vec[k]].data)],
                       mutated(t, TRUE, Some(w.tensors[vec[k]].data), t.gradfn, t.leaf)),
                 input, vec, k + 1)

\* tuple(t.mutated(usegrad=True, grad=next(gen)) for t in input)
RECURSIVE dualcopies(_, _, _, _)
dualcopies(w, input, vec, k) ==
    IF k > Len(input) THEN w
    ELSE LET t == w.tensors[input[k]]
         IN  dualcopies(alloc(w, mutated(t, TRUE, Some(w.tensors[vec[k]].data), t.gradfn, t.leaf)),
                        input, vec, k + 1)

\* The n objects allocated after the first n0.
fresh(n0, n) == [k \in 1..n |-> n0 + k]

all_gradtensor(ts, ids) == \A k \in 1..Len(ids) : gradtensor(ts[ids[k]])

(***************************************************************************)
(* vjp                                                                     *)
(***************************************************************************)
\* A variant of _vjperr that checks the inputs and not the cotangent.
_vjperr_inputs_only(ts, input, vec) ==
    IF ~all_gradtensor(ts, input) THEN "ValueError" ELSE "ok"

_vjperr(ts, input, vec) ==
    IF ~all_gradtensor(ts, input) THEN "ValueError"
    ELSE IF ~gradtensor(ts[vec]) THEN "ValueError"
    ELSE "ok"

\* return output, tuple(inputmap.values())
_vjp_return(inputmap, out) ==
    IF inputmap.status # "ok" THEN Fail(inputmap.status, inputmap.w)
    ELSE [status |-> "ok", w |-> inputmap.w, out |-> out, grads |-> inputmap.grads]

\* inputmap = _grad(input, output, vec), r the outcome of the with block
_vjp_grad(r, input, vec) ==
    IF r.status # "ok" THEN r
    ELSE _vjp_return(_grad(r.w, input, r.out, vec), r.out)

_vjp(w, input, vec, f) ==
    IF _vjperr(w.tensors, input, vec) # "ok" THEN Fail("ValueError", w)
    ELSE _vjp_grad(scoped(w, Autograd(TRUE, TRUE, FALSE), f, input), input, vec)

\* return output.mutated(usegrad=False, gradfn=None, leaf=True), grads
vjp_return(r) ==
    IF r.status # "ok" THEN r
    ELSE Result(alloc(r.w, mutated(r.w.tensors[r.out], FALSE, r.w.tensors[r.out].grad, 0, TRUE)),
                r.grads)

\* vec = vec.mutated(usegrad=False, grad=None); then _vjp on the copies
vjp_copied(w1, n0, n, vec, f) ==
    vjp_return(_vjp(alloc(w1, mutated(w1.tensors[vec], FALSE, None, w1.tensors[vec].gradfn,
                                      w1.tensors[vec].leaf)),
                    fresh(n0, n), Len(w1.tensors) + 1, f))

vjp(w, input, vec, f) ==
    IF _vjperr(w.tensors, input, vec) # "ok" THEN Fail("ValueError", w)
    ELSE vjp_copied(leafcopies(w, input, 1), Len(w.tensors), Len(input), vec, f)

(***************************************************************************)
(* jvp                                                                     *)
(***************************************************************************)
_jvperr(ts, input, vec) ==
    IF ~all_gradtensor(ts, input) THEN "ValueError"
    ELSE IF ~all_gradtensor(ts, vec) THEN "ValueError"
    ELSE "ok"

\* assert output.grad is not None; return output, output.grad
_jvp_return(r) ==
    IF r.status # "ok" THEN r
    ELSE IF r.w.tensors[r.out].grad = None THEN Fail("AssertionError", r.w)
    ELSE [r EXCEPT !.grads = r.w.tensors[r.out].grad]

\* A variant of _jvp that evaluates f under the reverse-mode override.
_jvp_reverse(w, input, f) == _jvp_return(scoped(w, Autograd(TRUE, TRUE, FALSE), f, input))

_jvp(w, input, f) == _jvp_return(scoped(w, Autograd(TRUE, FALSE, TRUE), f, input))

\* return output.mutated(usegrad=False, leaf=True), grad
jvp_return(r) ==
    IF r.status # "ok" THEN r
    ELSE Result(alloc(r.w, mutated(r.w.tensors[r.out], FALSE, r.w.tensors[r.out].grad,
                                   r.w.tensors[r.out].gradfn, TRUE)),
                r.grads)

jvp(w, input, vec, f) ==
    IF _jvperr(w.tensors, input, vec) # "ok" THEN Fail("ValueError", w)
    ELSE jvp_return(_jvp(dualcopies(w, input, vec, 1), fresh(Len(w.tensors), Len(input)), f))

(***************************************************************************)
(* Jacobians.  Multi-indices are 0-based, as in the source.                *)
(***************************************************************************)
\* np.ndindex(dim): the multi-indices in iteration order, the last axis
\* running fastest; succ steps the odometer.
RECURSIVE succ(_, _)
succ(idx, dim) ==
    IF dim = << >> THEN << >>
    ELSE IF idx[Len(dim)] + 1 < dim[Len(dim)]
    THEN [idx EXCEPT ![Len(dim)] = @ + 1]
    ELSE Append(succ(SubSeq(idx, 1, Len(dim) - 1), SubSeq(dim, 1, Len(dim) - 1)), 0)

RECURSIVE ndindex(_, _)
ndindex(dim, k) ==
    IF k = 0 THEN [j \in 1..Len(dim) |-> 0] ELSE succ(ndindex(dim, k - 1), dim)

\* A variant of getperts that counts the elements with the first axis
\* running fastest.
getperts_colmajor(t, k) ==
    LET rev(q) == [i \in 1..Len(q) |-> q[Len(q) + 1 - i]]
    IN  [dim |-> t.data.dim,
         data |-> [p \in 1..nelem(t) |->
                      IF p - 1 = offset(rev(unravel_index(k, rev(t.data.dim))), t.data.dim)
                      THEN 1 ELSE 0]]

\* getperts(tensor)[k]: zeros of the tensor's shape with 1 written at the
\* multi-index unravel_index(k, dim).
getperts(t, k) ==
    [dim |-> t.data.dim,
     data |-> [p \in 1..nelem(t) |->
                  IF p - 1 = offset(unravel_index(k, t.data.dim), t.data.dim) THEN 1 ELSE 0]]

getjac(t, output) == zeros(output.data.dim \o t.data.dim)

\* jac[row + (...,)] = jacrow
setrow(jac, row, outdim, jacrow) ==
    [jac EXCEPT !.data = [p \in 1..Len(jac.data) |->
        IF (p - 1) \div Len(jacrow.data) = offset(row, outdim)
        THEN jacrow.data[((p - 1) % Len(jacrow.data)) + 1]
        ELSE jac.data[p]]]

\* jac[(...,) + col] = jaccol
setcol(jac, col, indim, jaccol) ==
    [jac EXCEPT !.data = [p \in 1..Len(jac.data) |->
        IF (p - 1) % Prod(indim) = offset(col, indim)
        THEN jaccol.data[((p - 1) \div Prod(indim)) + 1]
        ELSE jac.data[p]]]

_jacerr(ts, input) == IF ~all_gradtensor(ts, input) THEN "ValueError" ELSE "ok"

\* for row, pert in zip(np.ndindex(output.dim), perts): ...  from element k
\* on; jacrevrow takes the outcome r of the k-th _vjp.
RECURSIVE jacrevrows(_, _, _, _, _, _, _)
RECURSIVE jacrevrow(_, _, _, _, _, _, _)
jacrevrows(w, input, f, pos, out, jac, k) ==
    IF k >= nelem(w.tensors[out])
    THEN [status |-> "ok", w |-> w, out |-> out, grads |-> <<jac>>]
    ELSE jacrevrow(_vjp(alloc(w, tensor(getperts(w.tensors[out], k), FALSE, w.tensors[out].dtype)),
                        input, Len(w.tensors) + 1, f),
                   input, f, pos, out, jac, k)

jacrevrow(r, input, f, pos, out, jac, k) ==
    IF r.status # "ok" THEN r
    ELSE jacrevrows(r.w, input, f, pos, out,
                    setrow(jac, ndindex(r.w.tensors[out].data.dim, k),
                           r.w.tensors[out].data.dim, r.grads[pos]),
                    k + 1)

\* tensor = input[pos]; jac = getjac(tensor, output); the loop
jacrev_loop(r, input, f, pos) ==
    IF r.status # "ok" THEN r
    ELSE jacrevrows(r.w, input, f, pos, r.out,
                    getjac(r.w.tensors[input[pos]], r.w.tensors[r.out]), 0)

jacrev(w, input, f, pos) ==
    IF _jacerr(w.tensors, input) # "ok" THEN Fail("ValueError", w)
    ELSE jacrev_loop(scoped(leafcopies(w, input, 1), Autograd(TRUE, TRUE, FALSE), f,
                            fresh(Len(w.tensors), Len(input))),
                     fresh(Len(w.tensors), Len(input)), f, pos)

\* colinput = [t.mutated(usegrad=True, grad=zeroslike(t)) if i != pos else t ...]
RECURSIVE colinputs(_, _, _, _, _)
colinputs(w, input, pos, k, acc) ==
    IF k > Len(input) THEN [w |-> w, ids |-> acc]
    ELSE IF k = pos THEN colinputs(w, input, pos, k + 1, Append(acc, input[k]))
    ELSE LET t == w.tensors[input[k]]
         IN  colinputs(alloc(w, mutated(t, TRUE, Some(zeroslike(t)), t.gradfn, t.leaf)),
                       input, pos, k + 1, Append(acc, Len(w.tensors) + 1))

\* for col, pert in zip(np.ndindex(tensor.dim), perts): ...  from element k
\* on; jacfwdcol takes the outcome r of the k-th _jvp.
RECURSIVE jacfwdcols(_, _, _, _, _, _, _)
RECURSIVE jacfwdcol(_, _, _, _, _, _, _)
jacfwdcols(w, colinput, f, pos, out, jac, k) ==
    IF k >= nelem(w.tensors[colinput[pos]])
    THEN [status |-> "ok", w |-> w, out |-> out, grads |-> <<jac>>]
    ELSE LET t == w.tensors[colinput[pos]]
         IN  jacfwdcol(_jvp(alloc(w, mutated(t, TRUE, Some(getperts(t, k)), t.gradfn, t.leaf)),
                            [colinput EXCEPT ![pos] = Len(w.tensors) + 1], f),
                       [colinput EXCEPT ![pos] = Len(w.tensors) + 1], f, pos, out, jac, k)

jacfwdcol(r, colinput, f, pos, out, jac, k) ==
    IF r.status # "ok" THEN r
    ELSE jacfwdcols(r.w, colinput, f, pos, out,
                    setcol(jac, ndindex(r.w.tensors[colinput[pos]].data.dim, k),
                           r.w.tensors[colinput[pos]].data.dim, r.grads[1]),
                    k + 1)

\* the loop over the columns, c the world and the ids of colinput
jacfwd_loop(c, input, f, pos, out) ==
    jacfwdcols(c.w, c.ids, f, pos, out,
               getjac(c.w.tensors[input[pos]], c.w.tensors[out]), 0)

\* tensor = input[pos]; ...; colinput = [...], r the outcome of the with block
jacfwd_cols(r, input, f, pos) ==
    IF r.status # "ok" THEN r
    ELSE jacfwd_loop(colinputs(r.w, input, pos, 1, << >>), input, f, pos, r.out)

jacfwd(w, input, f, pos) ==
    IF _jacerr(w.tensors, input) # "ok" THEN Fail("ValueError", w)
    ELSE jacfwd_cols(scoped(w, Autograd(FALSE, TRUE, FALSE), f, input), input, f, pos)

(***************************************************************************)
(* Tensor.backward of the deepnet package: the default seed is given only  *)
(* to an output of rank 0; then the producer propagates the seed.          *)
(***************************************************************************)
Tensor_backward(ts, ns, t, g) ==
    IF g = 0 /\ ndim(ts[t]) # 0
    THEN Pass("AssertionError", ts, << >>, << >>, << >>)
    ELSE IF ts[t].gradfn = 0
    THEN Pass("AttributeError", ts, << >>, << >>, << >>)
    ELSE _backward(ts, ns, <<t>>, IF g = 0 THEN << >> ELSE <<g>>, << >>)

(***************************************************************************)
(* The state machine.  ret records the last call: what was called, with    *)
(* which arguments, how it ended and what it returned.                     *)
(***************************************************************************)
Args(outputs, input, vec, f, pos) ==
    [outputs |-> outputs, input |-> input, vec |-> vec, f |-> f, pos |-> pos]

NoArgs == Args(<< >>, << >>, << >>, "", 0)

Ret(op, status, args) ==
    [op |-> op, status |-> status, args |-> args, out |-> None, grads |-> << >>,
     seeds |-> << >>, fcalls |-> 0, swaps |-> 0, built |-> 0, clean |-> FALSE,
     done |-> << >>, left |-> {}]

Configs == {Autograd(TRUE, TRUE, FALSE), Autograd(TRUE, FALSE, TRUE), Autograd(FALSE, TRUE, FALSE)}

\* The tensors the caller constructs: leaf k holds k+1, k+2, ... ; the
\* first is a tracked float tensor, the others are of any kind.
Kinds == {<<"float", TRUE>>, <<"float", FALSE>>, <<"int", FALSE>>}

leafdata(dim, k) == [dim |-> dim, data |-> [p \in 1..Prod(dim) |-> k + p]]

Init ==
    /\ \E dim \in Dims : \E kinds \in [1..NumLeaves -> Kinds] :
          /\ kinds[1] = <<"float", TRUE>>
          /\ tensors = [k \in 1..NumLeaves |->
                           tensor(leafdata(dim, k), kinds[k][2], kinds[k][1])]
    /\ nodes = << >>
    /\ mode = DefaultMode
    /\ scopes = << >>
    /\ entered = << >>
    /\ nback = 0
    /\ modules = << >>
    /\ ret = Ret("init", "ok", NoArgs)

Ids == 1..Len(tensors)
Leaves == 1..NumLeaves
Singles == {<<a>> : a \in Ids}
Pairs == {<<a, b>> : a \in Ids, b \in Ids}
\* The operations are symmetric in their operands: the caller's graphs are
\* enumerated up to the order of the operands.
Ordered == {i \in Pairs : i[1] <= i[2]}

Install(w) ==
    /\ tensors' = w.tensors
    /\ nodes' = w.nodes
    /\ mode' = w.mode
    /\ scopes' = w.scopes

\* The caller applies a tracked operation; the graph is built before the
\* passes run.
ApplyOp(fn, a, b) ==
    /\ Len(tensors) < NumLeaves + MaxOps
    /\ nback = 0
    /\ Install(apply(Here, fn, a, b))
    /\ ret' = Ret("apply", "ok", Args(<< >>, <<a, b>>, << >>, fn, 0))
    /\ UNCHANGED <<entered, nback, modules>>

\* with autograd(cfg): out = fn(a, b)
ScopedOp(cfg, fn, a, b) ==
    /\ Len(tensors) < NumLeaves + MaxOps
    /\ nback = 0
    /\ Install(scoped(Here, cfg, fn, <<a, b>>).w)
    /\ ret' = Ret("scoped", "ok", Args(<< >>, <<a, b>>, << >>, fn, 0))
    /\ UNCHANGED <<entered, nback, modules>>

\* The caller enters / leaves a `with autograd(cfg):` block; it leaves the
\* block by falling off its end or by an exception passing through.
EnterScope(cfg) ==
    /\ Len(scopes) < MaxDepth
    /\ Install(autograd_enter(Here, cfg))
    /\ entered' = Append(entered, mode)
    /\ ret' = Ret("enter", "ok", NoArgs)
    /\ UNCHANGED <<nback, modules>>

ExitScope(failed) ==
    /\ scopes # << >>
    /\ Install(autograd_exit(Here))
    /\ entered' = SubSeq(entered, 1, Len(entered) - 1)
    /\ ret' = Ret("exit", IF failed THEN "raised" ELSE "ok", NoArgs)
    /\ UNCHANGED <<nback, modules>>

allclean(ts) == \A k \in 1..Len(ts) : ts[k].grad = None

\* What a pass leaves behind.
Passed(op, args, r) ==
    /\ tensors' = r.ts
    /\ ret' = [Ret(op, r.status, args) EXCEPT !.seeds = r.seeds, !.clean = allclean(tensors),
                                             !.done = r.done, !.left = DOMAIN r.gm]
    /\ nback' = nback + 1
    /\ UNCHANGED <<nodes, mode, scopes, entered, modules>>

\* nura.backward(outputs, grads, inputs)
Backward(outputs, grads, inputs) ==
    /\ nback < MaxBackward
    /\ Passed("backward", Args(outputs, inputs, grads, "", 0),
              _backward(tensors, nodes, outputs, grads, inputs))

\* The caller repeats the call of backward it has just made.
BackwardAgain ==
    /\ ret.op = "backward"
    /\ nback < MaxBackward + MaxRepeat
    /\ Passed("backward", ret.args,
              _backward(tensors, nodes, ret.args.outputs, ret.args.vec, ret.args.input))

\* deepnet's t.backward(grad)
TensorBackward(t, g) ==
    /\ nback < MaxBackward
    /\ Passed("Tensor.backward", Args(<<t>>, << >>, IF g = 0 THEN << >> ELSE <<g>>, "", 0),
              Tensor_backward(tensors, nodes, t, g))

\* nura.grad(outputs, grads, inputs)
Graded(args, r) ==
    /\ tensors' = r.ts
    /\ ret' = [Ret("grad", r.status, args) EXCEPT !.grads = r.grads, !.clean = allclean(tensors)]
    /\ UNCHANGED <<nodes, mode, scopes, entered, nback, modules>>

Grad(outputs, grads, inputs) ==
    Graded(Args(outputs, inputs, grads, "", 0), grad(tensors, nodes, outputs, grads, inputs))

\* What a driver leaves behind: the caller's objects as the call left them
\* (the objects it made itself are garbage), and the record of the call.
Returned(op, args, r) ==
    /\ tensors' = SubSeq(r.w.tensors, 1, Len(tensors))
    /\ nodes' = SubSeq(r.w.nodes, 1, Len(nodes))
    /\ mode' = r.w.mode
    /\ scopes' = r.w.scopes
    /\ ret' = [Ret(op, r.status, args)
                  EXCEPT !.out = IF r.out = 0 THEN None ELSE Some(r.w.tensors[r.out]),
                         !.grads = r.grads,
                         !.fcalls = r.w.fcalls,
                         !.swaps = r.w.swaps,
                         !.built = Len(r.w.nodes) - Len(nodes)]
    /\ UNCHANGED <<entered, nback, modules>>

Vjp(input, vec, f) == Returned("vjp", Args(<< >>, input, <<vec>>, f, 0), vjp(Here, input, vec, f))

Jvp(input, vec, f) == Returned("jvp", Args(<< >>, input, vec, f, 0), jvp(Here, input, vec, f))

Jacrev(input, f, pos) ==
    Returned("jacrev", Args(<< >>, input, << >>, f, pos), jacrev(Here, input, f, pos))

Jacfwd(input, f, pos) ==
    Returned("jacfwd", Args(<< >>, input, << >>, f, pos), jacfwd(Here, input, f, pos))

\* Graphs and passes: the caller builds a graph, in the mode in force or
\* inside a scoped override, and runs passes over it.
Next ==
    \/ \E fn \in Fns : \E i \in Ordered : ApplyOp(fn, i[1], i[2])
    \/ \E i \in Ordered : ScopedOp(Autograd(FALSE, TRUE, FALSE), "mul", i[1], i[2])
    \/ \E o \in Singles : \E g \in {<< >>} \cup {<<c>> : c \in Leaves} : Backward(o, g, << >>)
    \/ BackwardAgain
    \/ \E t \in Ids : \E g \in {0} \cup Leaves : TensorBackward(t, g)
    \/ \E o \in Singles : \E i \in Leaves : Grad(o, << >>, <<i>>)

Spec == Init /\ [][Next]_vars

\* The drivers, called at any depth of the caller's scoped overrides.
NextDrivers ==
    \/ \E cfg \in Configs : EnterScope(cfg)
    \/ \E failed \in BOOLEAN : ExitScope(failed)
    \/ \E i \in Pairs : \E v \in Ids : \E f \in Fs : Vjp(i, v, f)
    \/ \E i \in Pairs : \E v \in Pairs : \E f \in Fs : Jvp(i, v, f)
    \/ \E i \in Pairs : \E f \in Fs : \E pos \in 1..2 : Jacrev(i, f, pos)
    \/ \E i \in Pairs : \E f \in Fs : \E pos \in 1..2 : Jacfwd(i, f, pos)

SpecDrivers == Init /\ [][NextDrivers]_vars

(***************************************************************************)
(* Order: graphs of up to MaxChain operations, in which a node is reached  *)
(* along paths of different length, and a pass from any value.             *)
(***************************************************************************)
ApplyChain(fn, a, b) ==
    /\ Len(tensors) < NumLeaves + MaxChain
    /\ nback = 0
    /\ Install(apply(Here, fn, a, b))
    /\ ret' = Ret("apply", "ok", Args(<< >>, <<a, b>>, << >>, fn, 0))
    /\ UNCHANGED <<entered, nback, modules>>

NextOrder ==
    \/ \E fn \in Fns : \E i \in Ordered : ApplyChain(fn, i[1], i[2])
    \/ \E o \in Singles : Backward(o, << >>, << >>)

SpecOrder == Init /\ [][NextOrder]_vars

(***************************************************************************)
(* Shapes: the caller's leaves have shapes of their own, the graph is      *)
(* built from the broadcasting and the shape-changing operations, and the  *)
(* cotangent of a pass, or the tangents of jvp on the leaves, are any of   *)
(* the leaves.                                                             *)
(***************************************************************************)
InitShapes ==
    /\ \E dims \in [1..NumLeaves -> Dims] : \E tracked \in BOOLEAN :
          tensors = [k \in 1..NumLeaves |->
                        tensor(leafdata(dims[k], k), IF k = 1 THEN TRUE ELSE tracked, "float")]
    /\ nodes = << >>
    /\ mode = DefaultMode
    /\ scopes = << >>
    /\ entered = << >>
    /\ nback = 0
    /\ modules = << >>
    /\ ret = Ret("init", "ok", NoArgs)

\* The caller applies a shape-changing operation.
ApplyUnary(fn, a) ==
    /\ Len(tensors) < NumLeaves + MaxOps
    /\ nback = 0
    /\ Install(apply1(Here, fn, a))
    /\ ret' = Ret("apply", "ok", Args(<< >>, <<a>>, << >>, fn, 0))
    /\ UNCHANGED <<entered, nback, modules>>

NextShapes ==
    \/ \E fn \in Fns : \E i \in Ordered : ApplyOp(fn, i[1], i[2])
    \/ \E fn \in UFns : \E a \in Ids : ApplyUnary(fn, a)
    \/ \E o \in Singles : \E g \in {<< >>} \cup {<<c>> : c \in Leaves} : Backward(o, g, << >>)
    \/ Len(tensors) = NumLeaves /\ nback = 0
          /\ \E i \in Pairs : \E v \in Pairs : \E f \in Fns : Jvp(i, v, f)

SpecShapes == InitShapes /\ [][NextShapes]_vars

(***************************************************************************)
(* Seeds: a node has several output slots, and a pass is asked for one or  *)
(* two values, with or without cotangents.                                 *)
(***************************************************************************)
Unbind(a) ==
    /\ ndim(tensors[a]) = 1
    /\ Len(tensors) + nelem(tensors[a]) <= NumLeaves + MaxChain
    /\ nback = 0
    /\ Install(unbind(Here, a))
    /\ ret' = Ret("apply", "ok", Args(<< >>, <<a>>, << >>, "unbind", 0))
    /\ UNCHANGED <<entered, nback, modules>>

NextSeeds ==
    \/ \E i \in Ordered : ApplyOp("add", i[1], i[2])
    \/ \E a \in Ids : Unbind(a)
    \/ \E o \in Singles \cup {i \in Pairs : i[1] < i[2]} :
          \E g \in {<< >>} \cup {<<c, c>> : c \in Leaves} : Backward(o, g, << >>)

SpecSeeds == InitShapes /\ [][NextSeeds]_vars

(***************************************************************************)
(* Perturbations: getperts on tensors of rank 0, 1 and 2.                  *)
(***************************************************************************)
PertDims == {<< >>, <<2>>, <<1, 2>>, <<2, 2>>, <<2, 3>>, <<3, 2>>}

InitPerts ==
    /\ \E dims \in [1..NumLeaves -> PertDims] : \E dtype \in {"float", "int"} :
          tensors = [k \in 1..NumLeaves |->
                        tensor(leafdata(dims[k], k), FALSE, IF k = 1 THEN "float" ELSE dtype)]
    /\ nodes = << >>
    /\ mode = DefaultMode
    /\ scopes = << >>
    /\ entered = << >>
    /\ nback = 0
    /\ modules = << >>
    /\ ret = Ret("init", "ok", NoArgs)

\* The caller takes perturbation k of getperts(t).
Perturb(t, k) ==
    /\ ret' = [Ret("getperts", "ok", Args(<<t>>, << >>, << >>, "", k))
                  EXCEPT !.out = Some(tensor(getperts(tensors[t], k), FALSE, tensors[t].dtype))]
    /\ UNCHANGED <<tensors, nodes, mode, scopes, entered, nback, modules>>

NextPerts == \E t \in Ids : \E k \in 0..(nelem(tensors[t]) - 1) : Perturb(t, k)

SpecPerts == InitPerts /\ [][NextPerts]_vars

(***************************************************************************)
(* Modules.  An attribute name is the sequence of its pieces, "_" being a  *)
(* piece of its own; a registry is a list of <<key, value>> in insertion   *)
(* order; a submodule is its index on the heap, a Parameter or a Buffer a  *)
(* number.                                                                 *)
(***************************************************************************)
\* Module.__init__: the four attributes pass through __setattr__.
Module_init ==
    [mods |-> << >>, params |-> << >>, buffs |-> << >>, active |-> TRUE,
     attrs |-> {<<"_", "mods">>, <<"_", "params">>, <<"_", "buffs">>, <<"_", "active">>}]

\* Module.__setattr__(name, value), value of the given kind.
Module_setattr(m, name, kind, value) ==
    LET key == SelectSeq(name, LAMBDA c : c # "_")
        put(reg) == IF \E k \in DOMAIN reg : reg[k][1] = key
                    THEN [k \in DOMAIN reg |-> IF reg[k][1] = key THEN <<key, value>> ELSE reg[k]]
                    ELSE Append(reg, <<key, value>>)
    IN  IF kind = "Module"
        THEN [status |-> "ok", m |-> [m EXCEPT !.mods = put(@), !.attrs = @ \cup {name}]]
        ELSE IF kind = "Parameter"
        THEN [status |-> "ok", m |-> [m EXCEPT !.params = put(@), !.attrs = @ \cup {name}]]
        ELSE IF kind = "Buffer"
        THEN [status |-> "ok", m |-> [m EXCEPT !.buffs = put(@), !.attrs = @ \cup {name}]]
        ELSE IF name \notin {<<"_", "mods">>, <<"_", "params">>, <<"_", "buffs">>, <<"_", "active">>,
                             <<"_", "args">>, <<"_", "kwargs">>}
        THEN [status |-> "AssertionError", m |-> m]
        ELSE [status |-> "ok", m |-> [m EXCEPT !.attrs = @ \cup {name}]]

\* m = Module()
NewModule ==
    /\ Len(modules) < MaxModules
    /\ modules' = Append(modules, Module_init)
    /\ ret' = [Ret("Module", "ok", NoArgs) EXCEPT !.out = Some(Len(modules) + 1)]
    /\ UNCHANGED <<tensors, nodes, mode, scopes, entered, nback>>

\* m.name = value
Assign(m, name, kind, value) ==
    /\ modules' = [modules EXCEPT ![m] = Module_setattr(modules[m], name, kind, value).m]
    /\ ret' = Ret("setattr", Module_setattr(modules[m], name, kind, value).status,
                  Args(<<m>>, << >>, << >>, kind, value))
    /\ UNCHANGED <<tensors, nodes, mode, scopes, entered, nback>>

\* m.train() (value TRUE) and m.eval() (value FALSE): self._trainable =
\* value, then return self.
Train(m, value) ==
    /\ modules' = [modules EXCEPT ![m] =
                      Module_setattr(modules[m], <<"_", "trainable">>, "bool", value).m]
    /\ ret' = [Ret(IF value THEN "train" ELSE "eval",
                   Module_setattr(modules[m], <<"_", "trainable">>, "bool", value).status,
                   Args(<<m>>, << >>, << >>, "", 0))
                  EXCEPT !.out = IF Module_setattr(modules[m], <<"_", "trainable">>, "bool", value).status = "ok"
                                 THEN Some(m) ELSE None]
    /\ UNCHANGED <<tensors, nodes, mode, scopes, entered, nback>>

\* No tensor has been made yet.
InitModules ==
    /\ tensors = << >>
    /\ nodes = << >>
    /\ mode = DefaultMode
    /\ scopes = << >>
    /\ entered = << >>
    /\ nback = 0
    /\ modules = << >>
    /\ ret = Ret("init", "ok", NoArgs)

NextModules ==
    \/ NewModule
    \/ \E m \in DOMAIN modules :
          \E name \in {<<"w">>, <<"_", "w">>} :
             \/ \E value \in DOMAIN modules : Assign(m, name, "Module", value)
             \/ \E kind \in {"Parameter", "Buffer", "bool"} : Assign(m, name, kind, 1)
    \/ \E m \in DOMAIN modules : Assign(m, <<"_", "active">>, "bool", 1)
    \/ \E m \in DOMAIN modules : \E value \in BOOLEAN : Train(m, value)

SpecModules == InitModules /\ [][NextModules]_vars

(***************************************************************************)
(* Retained values and restricted passes: the caller marks values of the   *)
(* graph with retain()/unretain() and runs a pass, restricted or not to a  *)
(* set of inputs.                                                          *)
(***************************************************************************)
\* A variant of retain()/unretain() that does nothing on a value without a
\* producer.
Tensor_retain_silent(ns, t, value) ==
    [status |-> "ok",
     nodes |-> IF t.gradfn = 0 THEN ns ELSE [ns EXCEPT ![t.gradfn].retain = value]]

\* t.retain() (value TRUE) and t.unretain() (value FALSE)
Tensor_retain(ns, t, value) ==
    IF t.gradfn = 0 THEN [status |-> "ValueError", nodes |-> ns]
    ELSE [status |-> "ok", nodes |-> [ns EXCEPT ![t.gradfn].retain = value]]

Retain(t, value) ==
    /\ nback = 0
    /\ nodes' = Tensor_retain(nodes, tensors[t], value).nodes
    /\ ret' = Ret(IF value THEN "retain" ELSE "unretain",
                  Tensor_retain(nodes, tensors[t], value).status,
                  Args(<<t>>, << >>, << >>, "", 0))
    /\ UNCHANGED <<tensors, mode, scopes, entered, nback, modules>>

NextRetain ==
    \/ \E fn \in Fns : \E i \in Ordered : ApplyOp(fn, i[1], i[2])
    \/ \E t \in Ids : \E value \in BOOLEAN : Retain(t, value)
    \/ \E o \in Singles : \E i \in {<< >>} \cup Singles : Backward(o, << >>, i)

SpecRetain == Init /\ [][NextRetain]_vars

(***************************************************************************)
(* Values: the caller constructs tensors and changes their attributes.     *)
(***************************************************************************)
\* Tensor.__setattr__ for the attributes _usegrad (value a boolean) and
\* _data (value the element type of the new payload; dtype is read off the
\* payload).
Tensor_setattr(t, name, value) ==
    IF name = "usegrad"
    THEN IF value /\ ~gradtensor(t) THEN [status |-> "ValueError", t |-> t]
         ELSE [status |-> "ok", t |-> [t EXCEPT !.usegrad = value]]
    ELSE [status |-> "ok",
          t |-> [t EXCEPT !.dtype = value, !.version = IF t.usegrad THEN @ + 1 ELSE @]]

\* Tensor.__init__: the attributes are set one by one, _data first.
Tensor_init(data, dtype, usegrad, g, gradfn, leaf) ==
    Tensor_setattr(Tensor(data, dtype, FALSE, g, gradfn, leaf), "usegrad", usegrad)

\* t.detach(): in place; tensors and nodes after it.
detach(ts, ns, t) ==
    [tensors |-> [ts EXCEPT ![t].usegrad = FALSE, ![t].gradfn = 0],
     nodes |-> IF ts[t].gradfn = 0 THEN ns ELSE [ns EXCEPT ![ts[t].gradfn].retain = FALSE]]

\* t.detached()
detached(t) == Tensor(t.data, t.dtype, FALSE, None, 0, TRUE)

\* What a call on a value leaves behind: the heaps and the record.
Called(op, t, name, status, ts, ns) ==
    /\ tensors' = ts
    /\ nodes' = ns
    /\ ret' = Ret(op, status, Args(<<t>>, << >>, << >>, name, 0))
    /\ UNCHANGED <<mode, scopes, entered, nback, modules>>

\* nura.tensor(data, usegrad, dtype)
Construct(dtype, usegrad) ==
    /\ Len(tensors) < NumLeaves + MaxOps
    /\ Called("tensor", Len(tensors) + 1, dtype,
              Tensor_init(leafdata(tensors[1].data.dim, 0), dtype, usegrad, None, 0, TRUE).status,
              IF Tensor_init(leafdata(tensors[1].data.dim, 0), dtype, usegrad, None, 0, TRUE).status = "ok"
              THEN Append(tensors, tensor(leafdata(tensors[1].data.dim, 0), usegrad, dtype))
              ELSE tensors,
              nodes)

\* t.attach()
Attach(t) ==
    Called("attach", t, "usegrad", Tensor_setattr(tensors[t], "usegrad", TRUE).status,
           [tensors EXCEPT ![t] = Tensor_setattr(tensors[t], "usegrad", TRUE).t], nodes)

\* t.mutate(usegrad=value) and t.mutate(data=payload of element type value)
Mutate(t, name, value) ==
    /\ tensors[t].version < MaxVersion
    /\ Called("mutate", t, name, Tensor_setattr(tensors[t], name, value).status,
              [tensors EXCEPT ![t] = Tensor_setattr(tensors[t], name, value).t], nodes)

\* t.mutated(usegrad=value) and t.mutated(data=...): the copy is made by
\* cls(...), then the attribute is set on it.
Tensor_mutated(t, name, value) ==
    IF Tensor_init(t.data, t.dtype, t.usegrad, t.grad, t.gradfn, t.leaf).status # "ok"
    THEN [status |-> "ValueError", t |-> t]
    ELSE Tensor_setattr([t EXCEPT !.version = 0], name, value)

Mutated(t, name, value) ==
    /\ Len(tensors) < NumLeaves + MaxOps
    /\ Called("mutated", t, name, Tensor_mutated(tensors[t], name, value).status,
              IF Tensor_mutated(tensors[t], name, value).status = "ok"
              THEN Append(tensors, Tensor_mutated(tensors[t], name, value).t)
              ELSE tensors,
              nodes)

\* t[0] = 0 (Tensor.__setitem__): the element is written into the payload
\* array; no attribute is set.  The caller writes before it builds a graph.
Setitem(t) ==
    /\ nodes = << >>
    /\ Called("setitem", t, "data", "ok",
              [tensors EXCEPT ![t].data.data = [k \in DOMAIN @ |-> IF k = 1 THEN 0 ELSE @[k]]], nodes)

Detach(t) ==
    Called("detach", t, "", "ok", detach(tensors, nodes, t).tensors, detach(tensors, nodes, t).nodes)

Detached(t) ==
    /\ Len(tensors) < NumLeaves + MaxOps
    /\ Called("detached", t, "", "ok", Append(tensors, detached(tensors[t])), nodes)

\* The attribute settings the caller tries: tracking switched on, the
\* payload replaced by one of integers.
Settings == {<<"usegrad", TRUE>>, <<"data", "int">>}

\* The caller works on the value it made last.
NextValues ==
    \/ \E i \in Ordered : ApplyOp("mul", i[1], i[2])
    \/ \E dtype \in {"int", "float"} : Construct(dtype, TRUE)
    \/ Attach(Len(tensors))
    \/ \E v \in Settings : Mutate(Len(tensors), v[1], v[2])
    \/ \E v \in Settings : Mutated(Len(tensors), v[1], v[2])
    \/ Setitem(Len(tensors))
    \/ Detach(Len(tensors))
    \/ Detached(Len(tensors))
    \/ \E value \in BOOLEAN : Retain(Len(tensors), value)

SpecValues == Init /\ [][NextValues]_vars

(***************************************************************************)
(* Properties.                                                             *)
(***************************************************************************)
passes == {"backward", "Tensor.backward"}
drivers == {"vjp", "jvp", "jacrev", "jacfwd"}

\* The output the last pass was called on.
passed == tensors[ret.args.outputs[1]]

nondiff(ids) == \E k \in 1..Len(ids) : ~gradtensor(tensors[ids[k]])

twice(g) == IF g = None THEN None ELSE Some(AddA(g[1], g[1]))

\* C1: backward() called without a cotangent on an output of more than one
\* element reports an error and seeds nothing.  Stated for both backward
\* entry points; nura.backward does not satisfy it.
C1_MultiElementReported ==
    (ret.op \in passes /\ ret.args.vec = << >> /\ nelem(passed) > 1)
        => (ret.status # "ok" /\ ret.seeds = << >>)

\* C2: backward() called without a cotangent on an output of exactly one
\* element, of any rank, succeeds and seeds the output with ones of its
\* shape.  Stated for both backward entry points; deepnet's Tensor.backward
\* does not satisfy it for shape (1,).
C2_OneElementSeeded ==
    (ret.op \in passes /\ ret.args.vec = << >> /\ nelem(passed) = 1 /\ passed.gradfn # 0)
        => (ret.status = "ok" /\ ret.seeds = <<ones(passed.data.dim)>>)

\* C3: accumulation law.  When backward() is called on a graph whose
\* gradients are clear and the same call is then repeated, the second call
\* leaves every tensor with twice the gradient the first call left.
C3_AccumulationLaw ==
    [][(/\ ret.op = "backward" /\ ret.status = "ok" /\ ret.clean
        /\ ret'.op = "backward" /\ ret'.args = ret.args /\ nback' = nback + 1)
       => /\ ret'.status = "ok"
          /\ ret'.seeds = ret.seeds
          /\ \A k \in 1..Len(tensors) : tensors'[k].grad = twice(tensors[k].grad)]_vars

C3_Witness ==
    /\ ret.op = "backward" /\ ret.status = "ok" /\ ~ret.clean
    /\ nback = MaxBackward + MaxRepeat
    /\ ret.args.vec # << >>
    /\ \E k \in Leaves : tensors[k].grad # None /\ tensors[k].grad # twice(tensors[k].grad)

\* C4: the scoped override restores the exact prior mode on every exit
\* path: leaving a block puts back the mode in force when it was entered, a
\* driver (which enters and leaves its own blocks, also when f raises)
\* leaves the mode and the live overrides as it found them, and with no
\* override live the mode is the one before the outermost was entered.
C4_ModeRestored ==
    [][/\ (Len(scopes') < Len(scopes)) => (mode' = entered[Len(entered)])
       /\ (Len(scopes') = Len(scopes)) => (mode' = mode /\ scopes' = scopes)
       /\ (ret'.op \in drivers) => (mode' = mode /\ scopes' = scopes)
       /\ (scopes' = << >>) => (mode' = DefaultMode)]_vars

C4_Witness ==
    /\ ret.op \in drivers /\ ret.status = "raised" /\ ret.swaps = 2
    /\ Len(scopes) = MaxDepth
    /\ mode = Autograd(FALSE, TRUE, FALSE)
    /\ scopes[Len(scopes)] = Autograd(TRUE, FALSE, TRUE)

\* C5: an operation applied inside an override with enabled=false makes no
\* node and its output is an untracked leaf without a producer; backward()
\* on an output without a producer fails with an error and changes no
\* gradient.
C5_ModeScoping ==
    [][/\ (ret'.op = "scoped")
            => /\ nodes' = nodes
               /\ tensors'[Len(tensors')].gradfn = 0
               /\ ~tensors'[Len(tensors')].usegrad
               /\ tensors'[Len(tensors')].leaf
       /\ (ret'.op \in passes /\ nback' = nback + 1 /\ tensors[ret'.args.outputs[1]].gradfn = 0)
            => /\ ret'.status \in {"AssertionError", "AttributeError"}
               /\ tensors' = tensors]_vars

C5_Witness ==
    /\ ret.op = "backward" /\ ret.status = "AssertionError"
    /\ ret.args.outputs[1] > NumLeaves
    /\ passed.gradfn = 0 /\ ~passed.usegrad /\ passed.leaf
    /\ tensors[1].usegrad
    /\ nodes = << >>

\* C6: each driver called with an input of non-differentiable type (for
\* vjp and jvp also the cotangent or a tangent) raises ValueError before f
\* is called, before the mode is written and before any node is made.
C6_RejectedFirst ==
    (/\ ret.op \in drivers
     /\ \/ nondiff(ret.args.input)
        \/ ret.op \in {"vjp", "jvp"} /\ nondiff(ret.args.vec))
        => (ret.status = "ValueError" /\ ret.fcalls = 0 /\ ret.swaps = 0 /\ ret.built = 0
            /\ ret.out = None /\ ret.grads = << >>)

C6_Witness ==
    /\ ret.op = "vjp" /\ ret.status = "ValueError"
    /\ ~nondiff(ret.args.input) /\ nondiff(ret.args.vec)
    /\ ret.args.f = "raise"
    /\ ret.fcalls = 0 /\ ret.swaps = 0

\* C7: for inputs and a cotangent of differentiable type and an f that
\* returns, vjp returns an output with tracking stripped and one gradient
\* per input, in order, each of its input's shape.  vjp does not satisfy
\* it: it never returns.
C7_VjpReturns ==
    (/\ ret.op = "vjp" /\ ret.args.f # "raise"
     /\ ~nondiff(ret.args.input) /\ ~nondiff(ret.args.vec))
        => /\ ret.status = "ok"
           /\ ret.out # None
           /\ ~ret.out[1].usegrad /\ ret.out[1].gradfn = 0 /\ ret.out[1].leaf
           /\ Len(ret.grads) = Len(ret.args.input)
           /\ \A k \in 1..Len(ret.grads) : ret.grads[k].dim = tensors[ret.args.input[k]].data.dim

\* C8: grad() on an output with a producer and a tracked input returns the
\* gradients per input and changes no gradient.  grad does not satisfy it:
\* it never returns.
C8_GradReturns ==
    (/\ ret.op = "grad"
     /\ passed.gradfn # 0
     /\ tensors[ret.args.input[1]].usegrad)
        => (ret.status = "ok" /\ Len(ret.grads) = Len(ret.args.input))

\* C9: for inputs of differentiable type, a valid pos and an f that
\* returns, jacrev and jacfwd each return a Jacobian of shape
\* output.shape + inputs[pos].shape.  jacrev does not satisfy it: it never
\* returns.
C9_JacobianShape ==
    (ret.op \in {"jacrev", "jacfwd"} /\ ret.args.f # "raise" /\ ~nondiff(ret.args.input))
        => /\ ret.status = "ok"
           /\ ret.out # None
           /\ Len(ret.grads) = 1
           /\ ret.grads[1].dim = ret.out[1].data.dim \o tensors[ret.args.input[ret.args.pos]].data.dim

\* diag(b) of a vector b
diag(b) ==
    [dim |-> b.dim \o b.dim,
     data |-> [k \in 1..(Len(b.data) * Len(b.data)) |->
                  IF (k - 1) \div Len(b.data) = (k - 1) % Len(b.data)
                  THEN b.data[((k - 1) % Len(b.data)) + 1] ELSE 0]]

\* C10: for f(a, b) = a * b on vectors of the same length, jacrev and
\* jacfwd with respect to a both return diag(b).  jacrev does not satisfy
\* it: it never returns.
C10_JacobianConsistency ==
    (/\ ret.op \in {"jacrev", "jacfwd"} /\ ret.args.f = "mul" /\ ret.args.pos = 1
     /\ ~nondiff(ret.args.input)
     /\ ndim(tensors[ret.args.input[1]]) = 1)
        => (ret.status = "ok" /\ ret.grads = <<diag(tensors[ret.args.input[2]].data)>>)

\* The nodes of a shape-changing operation a pass from the output reaches.
shapenodes ==
    {n \in Range(construct_graph(nodes, <<passed.gradfn>>)) : nodes[n].fn \in UFns}

\* The cotangent of the last pass, if one was given, has the output's shape.
seedfits ==
    ret.args.vec = << >> \/ tensors[ret.args.vec[1]].data.dim = passed.data.dim

reached == Range(construct_graph(nodes, <<passed.gradfn>>))

\* C12: after t.retain() on a non-leaf t, a pass that reaches t's producer
\* accumulates into t's gradient; without retain(), or after unretain(), a
\* pass sets no gradient on a non-leaf that is not one of its inputs.  The
\* executor does not satisfy the first half: it never reads the mark.
C12_RetainAccumulates ==
    (ret.op = "backward" /\ ret.status = "ok" /\ ret.clean /\ passed.gradfn # 0)
        => \A t \in Ids :
              (tensors[t].gradfn \in reached /\ <<t>> # ret.args.input)
                 => (tensors[t].grad # None <=> nodes[tensors[t].gradfn].retain)

\* The value the last call was made on.
called == ret.args.outputs[1]

\* C13: retain() and unretain() on a value without a producer, a leaf or a
\* value detached earlier, raise ValueError and change no value and no node.
C13_RetainRejected ==
    [][(ret'.op \in {"retain", "unretain"} /\ tensors[ret'.args.outputs[1]].gradfn = 0)
       => (ret'.status = "ValueError" /\ tensors' = tensors /\ nodes' = nodes)]_vars

C13_Witness ==
    /\ ret.op = "retain" /\ ret.status = "ValueError"
    /\ called > NumLeaves
    /\ tensors[called].gradfn = 0 /\ ~tensors[called].leaf
    /\ nodes # << >>

\* C14: in every reachable state a tracked value has a differentiable
\* element type.  Replacing the payload of a tracked value does not satisfy
\* it.
C14_TrackedIsDifferentiable ==
    \A t \in Ids : tensors[t].usegrad => gradtensor(tensors[t])

\* C15: after detach() the value, and after detached() the copy, is a
\* leaf without a producer and is not tracked.  detach() on a non-leaf does
\* not satisfy it.
C15_DetachedIsLeaf ==
    /\ (ret.op = "detach")
          => (tensors[called].leaf /\ tensors[called].gradfn = 0 /\ ~tensors[called].usegrad)
    /\ (ret.op = "detached")
          => (tensors[Len(tensors)].leaf /\ tensors[Len(tensors)].gradfn = 0
              /\ ~tensors[Len(tensors)].usegrad)

\* C16: jvp on differentiable inputs with one differentiable tangent per
\* input, for f a tracked operation, returns normally, builds no node, and
\* returns the output with tracking stripped together with the output
\* tangent, which has the output's shape and is the forward rule applied to
\* tangent i attached to input i.
C16_JvpForwardOnly ==
    (/\ ret.op = "jvp"
     /\ all_gradtensor(tensors, ret.args.input)
     /\ all_gradtensor(tensors, ret.args.vec)
     /\ ret.args.f \in Fns)
    => /\ ret.status = "ok"
       /\ ret.built = 0
       /\ ret.out # None
       /\ ~ret.out[1].usegrad /\ ret.out[1].leaf /\ ret.out[1].gradfn = 0
       /\ ret.out[1].data = forward(ret.args.f, tensors[ret.args.input[1]].data,
                                    tensors[ret.args.input[2]].data)
       /\ ret.grads # None
       /\ ret.grads[1].dim = ret.out[1].data.dim
       /\ ret.grads[1] = forwardRule(ret.args.f,
                                     tensors[ret.args.input[1]].data,
                                     tensors[ret.args.input[2]].data,
                                     tensors[ret.args.vec[1]].data,
                                     tensors[ret.args.vec[2]].data)

C16_Witness ==
    /\ ret.op = "jvp" /\ ret.status = "ok" /\ ret.args.f = "mul"
    /\ ret.args.input[1] # ret.args.input[2]
    /\ ret.args.vec[1] # ret.args.vec[2]
    /\ ret.grads # None
    /\ ~mode.forward
    /\ scopes # << >>

\* The shape of the tensor given cannot be reduced to the shape of the
\* tensor target by summing over broadcast axes.
mismatched(given, target) == ~compat(tensors[target].data.dim, tensors[given].data.dim)

\* C17: a cotangent given to backward, or a tangent given to jvp, whose
\* shape cannot be matched to the shape of its target is reported: the call
\* does not return normally.  The seed and the dual copies are made without
\* a check of the shape, and the property does not hold.
C17_MismatchReported ==
    /\ (ret.op = "backward" /\ ret.args.vec # << >>
          /\ mismatched(ret.args.vec[1], ret.args.outputs[1]))
        => ret.status # "ok"
    /\ (ret.op = "jvp"
          /\ \E k \in 1..2 : mismatched(ret.args.vec[k], ret.args.input[k]))
        => ret.status # "ok"

\* C18: a pass that fails leaves the gradient of every value as it was
\* before the call.  A restricted pass that fails after it accumulated into
\* its input does not satisfy it.
C18_FailureKeepsGradients ==
    [][(ret'.op = "backward" /\ ret'.status # "ok")
       => \A t \in Ids : tensors'[t].grad = tensors[t].grad]_vars

\* The node that accumulates into the value t: its producer, or its leaf
\* node; 0 if there is none.
accumulator(t) ==
    IF tensors[t].gradfn # 0 THEN tensors[t].gradfn
    ELSE IF \E n \in DOMAIN nodes : nodes[n].fn = "leaf" /\ nodes[n].outputs = <<t>>
    THEN CHOOSE n \in DOMAIN nodes : nodes[n].fn = "leaf" /\ nodes[n].outputs = <<t>>
    ELSE 0

\* C19: a pass restricted to an input that it reaches, a leaf or a non-leaf,
\* completes normally and leaves a gradient on the input.  For a non-leaf
\* input with upstream parents the pass fails on the first upstream node.
C19_RestrictedPassCompletes ==
    (/\ ret.op = "backward" /\ ret.args.input # << >>
     /\ passed.gradfn # 0
     /\ accumulator(ret.args.input[1]) \in reached)
    => (ret.status = "ok" /\ tensors[ret.args.input[1]].grad # None)

\* The position of the node n in the order the pass processed the nodes.
position(n) == CHOOSE k \in 1..Len(ret.done) : ret.done[k] = n

\* The derivative of the value t along the leaf x, by the forward rules.
RECURSIVE tangentwrt(_, _)
tangentwrt(t, x) ==
    IF t = x THEN oneslike(tensors[t])
    ELSE IF tensors[t].gradfn = 0 THEN zeroslike(tensors[t])
    ELSE forwardRule(nodes[tensors[t].gradfn].fn,
                     tensors[nodes[tensors[t].gradfn].ctx[1]].data,
                     tensors[nodes[tensors[t].gradfn].ctx[2]].data,
                     tangentwrt(nodes[tensors[t].gradfn].ctx[1], x),
                     tangentwrt(nodes[tensors[t].gradfn].ctx[2], x))

\* C21: a pass from a value with a producer processes a node only after
\* every node that can reach it, so that the cotangent a leaf is processed
\* with is the sum over all paths: when no gradient was set before the pass,
\* the gradient it leaves on a leaf is the derivative of the output along
\* the leaf.
C21_ProcessedAfterConsumers ==
    (ret.op = "backward" /\ passed.gradfn # 0)
    => /\ ret.status = "ok"
       /\ \A n \in Range(ret.done) : \A m \in consumers(nodes, construct_graph(nodes, <<passed.gradfn>>), n) :
             m \in Range(ret.done) /\ position(m) < position(n)
       /\ \A x \in Leaves :
             (ret.clean /\ tensors[x].usegrad /\ accumulator(x) \in reached)
                => tensors[x].grad = Some(tangentwrt(ret.args.outputs[1], x))

\* A pass over a graph in which the producer of a value is a parent of the
\* output's producer and of another parent of the output's producer.
C21_Witness ==
    /\ ret.op = "backward" /\ ret.status = "ok" /\ passed.gradfn # 0
    /\ \E n, m \in Range(ret.done) :
          /\ nodes[n].fn # "leaf"
          /\ n # m
          /\ n \in Range(parentsof(nodes, passed.gradfn))
          /\ m \in Range(parentsof(nodes, passed.gradfn))
          /\ n \in Range(parentsof(nodes, m))
          /\ position(m) < position(n)

\* C22: a pass from a value with a producer returns, having processed
\* every node reachable from the output exactly once; a None parent is not
\* a node of the pass.
C22_EachNodeOnce ==
    (ret.op = "backward" /\ passed.gradfn # 0)
    => /\ ret.status = "ok"
       /\ Range(ret.done) = reached
       /\ Len(ret.done) = Cardinality(reached)
       /\ 0 \notin Range(ret.done)

\* A pass over a graph with a None parent and a node with two consumers.
C22_Witness ==
    /\ ret.op = "backward" /\ ret.status = "ok" /\ passed.gradfn # 0
    /\ \E n \in reached : 0 \in Range(parentsof(nodes, n))
    /\ \E n \in reached : nodes[n].fn # "leaf" /\ Cardinality(consumers(nodes, ret.done, n)) = 2
    /\ Len(ret.done) > 3

C24_MapEmptyOnReturn ==
    (ret.op = "backward" /\ passed.gradfn # 0)
    => (ret.status = "ok" /\ ret.left = {})

\* A pass that created entries for the parents of three operations.
C24_Witness ==
    /\ ret.op = "backward" /\ ret.status = "ok" /\ ret.left = {}
    /\ Cardinality({n \in Range(ret.done) : nodes[n].fn # "leaf"}) = MaxChain
    /\ \E n \in Range(ret.done) : nodes[n].fn = "leaf"

\* The requested output that occupies the slot k of the node n, 0 if none.
requested(ns, outputs, n, k) ==
    IF \E i \in DOMAIN outputs : outputs[i] = ns[n].outputs[k]
    THEN CHOOSE i \in DOMAIN outputs : outputs[i] = ns[n].outputs[k]
    ELSE 0

\* The cotangent the slot k of the output node n is to be seeded with.
slotseed(ts, ns, outputs, grads, n, k) ==
    IF requested(ns, outputs, n, k) = 0 THEN zeroslike(ts[ns[n].outputs[k]])
    ELSE IF requested(ns, outputs, n, k) <= Len(grads)
    THEN ts[grads[requested(ns, outputs, n, k)]].data
    ELSE oneslike(ts[outputs[requested(ns, outputs, n, k)]])

\* The Gradient Map as the pass seeds it.
seedmap(ts, ns, outputs, grads) ==
    dictzip(gradfns(ts, outputs),
            _get_output_grads(ts, ns, outputs, grads, gradfns(ts, outputs)).grads,
            Len(gradfns(ts, outputs)))

\* C25: a pass asked for distinct values that all have producers seeds one
\* entry per output node, holding per slot the cotangent of the requested
\* value in that slot, and zeros of the slot's shape in a slot that was not
\* requested.  With two requested values of one node the entry of the first
\* is replaced by that of the second.
C25_SeedPerSlot ==
    [][(/\ ret'.op = "backward"
        /\ \A i \in DOMAIN ret'.args.outputs : tensors[ret'.args.outputs[i]].gradfn # 0)
       => /\ DOMAIN seedmap(tensors, nodes, ret'.args.outputs, ret'.args.vec)
               = Range(gradfns(tensors, ret'.args.outputs))
          /\ \A n \in Range(gradfns(tensors, ret'.args.outputs)) :
                \A k \in DOMAIN nodes[n].outputs :
                   seedmap(tensors, nodes, ret'.args.outputs, ret'.args.vec)[n][k].val
                      = slotseed(tensors, nodes, ret'.args.outputs, ret'.args.vec, n, k)]_vars

\* The cotangent g summed over the axes along which a value of shape dim
\* was stretched, for the shapes of Dims: a shape that differs from the
\* cotangent's has one element, which receives the sum of all of g.
reduced(g, dim) ==
    IF g.dim = dim THEN g ELSE [dim |-> dim, data |-> <<SumOver(g.data, DOMAIN g.data)>>]

\* The operands of the operation that produced the output of the last pass.
operands == nodes[passed.gradfn].ctx

C27_VersionCountsWrites ==
    [][IF ret'.status = "ok" /\ (ret'.op = "setitem" \/ (ret'.op = "mutate" /\ ret'.args.f = "data"))
       THEN tensors'[ret'.args.outputs[1]].version = tensors[ret'.args.outputs[1]].version + 1
       ELSE \A t \in Ids : tensors'[t].version = tensors[t].version]_vars

\* C28: getperts(t) yields nelem(t) distinct perturbations of t's shape and
\* element type; perturbation k is 1 at the multi-index that np.ndindex, the
\* order jacrev and jacfwd walk in, yields at step k, which is the k-th in
\* row-major order, and 0 everywhere else.
C28_PerturbationOrder ==
    (ret.op = "getperts")
    => /\ ret.out[1].data.dim = tensors[called].data.dim
       /\ ret.out[1].dtype = tensors[called].dtype
       /\ Len(ret.out[1].data.data) = nelem(tensors[called])
       /\ \A p \in 1..nelem(tensors[called]) :
             ret.out[1].data.data[p]
                = IF p - 1 = offset(ndindex(tensors[called].data.dim, ret.args.pos),
                                    tensors[called].data.dim)
                  THEN 1 ELSE 0
       /\ offset(ndindex(tensors[called].data.dim, ret.args.pos), tensors[called].data.dim)
             = ret.args.pos
       /\ \A j \in 0..(nelem(tensors[called]) - 1) :
             (j # ret.args.pos) => (getperts(tensors[called], j) # ret.out[1].data)

\* A perturbation of a tensor of shape (2, 3) at the multi-index (1, 0).
C28_Witness ==
    /\ ret.op = "getperts"
    /\ tensors[called].data.dim = <<2, 3>>
    /\ ret.args.pos = 3
    /\ ndindex(<<2, 3>>, ret.args.pos) = <<1, 0>>
    /\ ret.out[1].data.data = <<0, 0, 0, 1, 0, 0>>

\* C29: vjp, jvp, jacrev and jacfwd, whether they return or raise, leave
\* the tracked flag, the gradient, the producer, the leaf flag and the
\* version of every tensor of the caller as they were, and none is added or
\* removed.
C29_DriversKeepCallerTensors ==
    [][(ret'.op \in drivers)
       => /\ Len(tensors') = Len(tensors)
          /\ \A t \in Ids :
                /\ tensors'[t].usegrad = tensors[t].usegrad
                /\ tensors'[t].grad = tensors[t].grad
                /\ tensors'[t].gradfn = tensors[t].gradfn
                /\ tensors'[t].leaf = tensors[t].leaf
                /\ tensors'[t].version = tensors[t].version]_vars

\* jvp has returned a tangent for an untracked input, which is still
\* untracked and without a gradient.
C29_Witness ==
    /\ ret.op = "jvp" /\ ret.status = "ok" /\ ret.grads # None
    /\ ret.args.input[1] # ret.args.input[2]
    /\ ~tensors[ret.args.input[2]].usegrad
    /\ tensors[ret.args.input[2]].grad = None
    /\ tensors[ret.args.input[1]].grad = None

\* C30: train() and eval() on a module built by Module.__init__ and
\* attribute assignments return the module and leave its submodules,
\* parameters and buffers as they were.  Both assign _trainable, a name that
\* __setattr__ does not admit, and do not return.
C30_TrainEvalReturn ==
    [][(ret'.op \in {"train", "eval"})
       => /\ ret'.status = "ok"
          /\ ret'.out = Some(ret'.args.outputs[1])
          /\ \A m \in DOMAIN modules :
                /\ modules'[m].mods = modules[m].mods
                /\ modules'[m].params = modules[m].params
                /\ modules'[m].buffs = modules[m].buffs]_vars

====
